---- MODULE Spec2Model ----
(***************************************************************************)
(* Model of the Polish railway scraper (direkt_ciufciuf/scraper/main.py):  *)
(* the disk cache (stations/trains files), the in-memory collections of    *)
(* PolishRailwayScraper, and the sequential crawl of run_scraper.          *)
(* A process can be killed between any two steps; the disk survives.       *)
(***************************************************************************)
EXTENDS Integers, Sequences, FiniteSets, TLC

(* ---------------------------- bounds ----------------------------------- *)
\* station identifiers the data source may list: 1..MaxStationId
MaxStationId == 1
\* train identifiers the data source may return: 1..MaxTrainId
MaxTrainId == 1
\* longest departures list returned for one station
MaxDepartures == 2
\* number of processes (runs of run_scraper) started on the same disk
MaxRuns == 2
\* number of calls of scrape_all_trains on one scraper object (SpecLib)
MaxLoops == 2
\* checkpoint period of scrape_all_trains; the source uses 500 (main.py:284),
\* scaled down so that the cadence is exercised by a small worklist
CheckpointEvery == 2

StationIds == 1..MaxStationId
TrainIds == 1..MaxTrainId
\* display names the data source gives a station now; files left by earlier
\* versions of the program carry former names ("B", "C")
Names == {"A"}
\* the route of a train: the stops (station ids, in order) that get_train
\* returns for it
Route(t) == <<t, t + 1>>

(* ------------------------ keys and dictionaries ------------------------ *)
\* A dictionary key is a Python int or a Python str holding a decimal number.
IntKey(n) == [t |-> "int", n |-> n]
StrKey(n) == [t |-> "str", n |-> n]
\* str(k): an int becomes its decimal string, a str is returned as is
PyStr(k) == StrKey(k.n)
\* int(k): the number a decimal string (or an int) denotes
PyInt(k) == k.n
\* the identifier a key denotes, whatever its form
Ident(k) == k.n

\* A dict is the sequence of its <<key, value>> items in insertion order.
HasKey(d, k) == \E i \in 1..Len(d) : d[i][1] = k
DictGet(d, k) == d[CHOOSE i \in 1..Len(d) : d[i][1] = k][2]
\* d[k] = v: an existing key keeps its position, a new key is appended
DictSet(d, k, v) ==
    IF HasKey(d, k)
    THEN [i \in 1..Len(d) |-> IF d[i][1] = k THEN <<k, v>> ELSE d[i]]
    ELSE Append(d, <<k, v>>)
DictKeys(d) == {d[i][1] : i \in 1..Len(d)}

(* ------------------------------ files ---------------------------------- *)
\* A file is absent, unreadable, or a JSON object: the sequence of its
\* members <<key string, value>> in text order (a key may occur twice).
Absent == [exists |-> FALSE, ok |-> FALSE, members |-> <<>>]
Corrupt == [exists |-> TRUE, ok |-> FALSE, members |-> <<>>]
JsonFile(ms) == [exists |-> TRUE, ok |-> TRUE, members |-> ms]

\* json.dumps of a dict: every key is written as a string, items in order;
\* two keys 1 and "1" are both written, as the same member name "1"
JsonDumps(d) == [i \in 1..Len(d) |-> <<PyStr(d[i][1]), d[i][2]>>]

RECURSIVE JsonLoadsFrom(_, _)
JsonLoadsFrom(acc, ms) ==
    IF ms = <<>> THEN acc
    ELSE JsonLoadsFrom(DictSet(acc, ms[1][1], ms[1][2]), Tail(ms))
RECURSIVE JsonLoadsFirstFrom(_, _)
JsonLoadsFirstFrom(acc, ms) ==
    IF ms = <<>> THEN acc
    ELSE JsonLoadsFirstFrom(
            IF HasKey(acc, ms[1][1]) THEN acc ELSE Append(acc, ms[1]), Tail(ms))
\* variant: a repeated member name keeps the first value
JsonLoadsFirst(ms) == JsonLoadsFirstFrom(<<>>, ms)

\* variant: the members are kept as a list of pairs (object_pairs_hook=list)
JsonLoadsPairs(ms) == ms

\* json.loads of an object: a repeated member name keeps the last value
JsonLoads(ms) == JsonLoadsFrom(<<>>, ms)

RECURSIVE StrKeysFrom(_, _)
StrKeysFrom(acc, d) ==
    IF d = <<>> THEN acc
    ELSE StrKeysFrom(DictSet(acc, PyStr(d[1][1]), d[1][2]), Tail(d))
\* {str(k): v for k, v in d.items()}
StrKeys(d) == StrKeysFrom(<<>>, d)

(* ------------------------------ values --------------------------------- *)
Station(n, nm) == [id |-> n, name |-> nm]
\* complete train record (main.py:174-182); departure_station_id 0 = no such field
FullTrain(tid, stops) ==
    [train_id |-> tid, stops |-> stops, total_stops |-> Len(stops),
     departure_station_id |-> 0]
\* record stored when get_train failed (main.py:193-206); total_stops -1 = no such field
StubTrain(tid, sid) ==
    [train_id |-> tid, stops |-> <<>>, total_stops |-> -1,
     departure_station_id |-> sid]

\* variant: every record counts as one with a route
trains_with_routes_all(tr) == Len(tr)

\* sum(1 for train in self.trains.values() if train.get('stops'))
trains_with_routes(tr) == Cardinality({i \in 1..Len(tr) : tr[i][2].stops # <<>>})

RECURSIVE total_stops(_)
\* sum(len(train.get('stops', [])) for train in self.trains.values())
total_stops(tr) ==
    IF tr = <<>> THEN 0 ELSE Len(tr[1][2].stops) + total_stops(Tail(tr))

\* "no record" in the history of first values
NoTrain == [train_id |-> 0, stops |-> <<>>, total_stops |-> -1,
            departure_station_id |-> 0]

\* scraping_summary.json as save_final_data writes it; the timestamp is the
\* number of the process that wrote it
Summary(st, tr, ps, now) ==
    [exists |-> TRUE,
     scraping_date |-> now,
     total_stations |-> Len(st),
     total_trains |-> Len(tr),
     trains_with_complete_routes |-> trains_with_routes(tr),
     total_stops_across_all_trains |-> total_stops(tr),
     stations_processed |-> Cardinality(ps)]
\* nothing written to scraping_summary.json
NoSummary ==
    [exists |-> FALSE, scraping_date |-> 0, total_stations |-> 0,
     total_trains |-> 0, trains_with_complete_routes |-> 0,
     total_stops_across_all_trains |-> 0, stations_processed |-> 0]

VARIABLES
    pc,                 \* position of the process: off, constructed, fetched, loop, trains, mark, done
    run,                \* number of processes started so far
    stations_only,      \* the --stations-only flag of the current process
    stations_gz,        \* file stations.json.gz
    trains_gz,          \* file trains.json.gz
    stations_json,      \* file stations.json (legacy, never written)
    trains_json,        \* file trains.json (legacy, never written)
    scraping_summary,   \* what this process has written to scraping_summary.json (a file no process reads)
    stations,           \* self.stations
    trains,             \* self.trains
    processed_stations, \* self.processed_stations
    station_items,      \* snapshot list(self.stations.items()) of the crawl loop
    idx,                \* position of the crawl loop in station_items
    departures_left,    \* number of departures of the current station still to be examined
    train_id,           \* train_id of the departure examined last (0: none)
    new_trains_count,   \* new_trains_count of fetch_trains_for_station
    loops,              \* calls of scrape_all_trains on this scraper
    n_get_departures,   \* api.get_departures calls issued by this process
    n_get_train,        \* api.get_train calls issued by this process
    n_sleep_short,      \* asyncio.sleep(0.2) performed by this process
    n_sleep_long,       \* asyncio.sleep(0.5) performed by this process
    loaded_ids,         \* history: train identifiers in self.trains after load
    seen_ids,           \* history: train identifiers listed by get_departures in this process
    saved,              \* history: the collections as they were at the last save
    event,              \* history: what the last step did
    stations_failed,    \* history: api.get_stations raised in this process
    ever,               \* history: the first value each train identifier had in a record cache
    last_io             \* history: what this process did last, of get_departures, get_train, sleep

disk == <<stations_gz, trains_gz, stations_json, trains_json>>
memory == <<stations, trains, processed_stations, station_items, idx,
            departures_left, train_id, new_trains_count, loops>>
calls == <<n_get_departures, n_get_train, n_sleep_short, n_sleep_long>>
history == <<loaded_ids, seen_ids, saved, event, stations_failed, ever, last_io>>
vars == <<pc, run, stations_only, disk, scraping_summary, memory, calls, history>>

(* --------------------------- initial disk ------------------------------ *)
\* the uncompressed pair left by an earlier version of the program (its
\* stations file written from a dict that held the key "1" and the key 1,
\* hence the repeated member name)
LegacyStations ==
    JsonFile(<<<<StrKey(1), Station(1, "B")>>, <<StrKey(1), Station(1, "C")>>>>)
LegacyTrains == JsonFile(<<<<StrKey(1), StubTrain(1, 1)>>>>)

\* What a first process may find: nothing; the uncompressed pair alone; the
\* uncompressed pair next to a newer compressed pair; the same with a
\* compressed stations file that cannot be read.
InitDisks ==
    { [sgz |-> Absent, tgz |-> Absent, sj |-> Absent, tj |-> Absent],
      [sgz |-> Absent, tgz |-> Absent, sj |-> LegacyStations, tj |-> LegacyTrains],
      [sgz |-> JsonFile(<<<<StrKey(1), Station(1, "A")>>>>),
       tgz |-> JsonFile(<<<<StrKey(1), FullTrain(1, Route(1))>>>>),
       sj |-> LegacyStations, tj |-> LegacyTrains],
      [sgz |-> Corrupt, tgz |-> JsonFile(<<<<StrKey(1), FullTrain(1, Route(1))>>>>),
       sj |-> LegacyStations, tj |-> LegacyTrains] }

Init ==
    /\ pc = "off"
    /\ run = 0
    /\ stations_only = FALSE
    /\ \E dsk \in InitDisks :
          /\ stations_gz = dsk.sgz
          /\ trains_gz = dsk.tgz
          /\ stations_json = dsk.sj
          /\ trains_json = dsk.tj
    /\ scraping_summary = NoSummary
    /\ stations = <<>>
    /\ trains = <<>>
    /\ processed_stations = {}
    /\ station_items = <<>>
    /\ idx = 1
    /\ departures_left = 0
    /\ train_id = 0
    /\ new_trains_count = 0
    /\ loops = 0
    /\ n_get_departures = 0
    /\ n_get_train = 0
    /\ n_sleep_short = 0
    /\ n_sleep_long = 0
    /\ loaded_ids = {}
    /\ seen_ids = {}
    /\ saved = [valid |-> FALSE, stations |-> <<>>, trains |-> <<>>]
    /\ event = "init"
    /\ stations_failed = FALSE
    /\ ever = [t \in TrainIds |-> NoTrain]
    /\ last_io = "none"

(* ------------------------- load_existing_data -------------------------- *)
\* variant: a compressed stations file that cannot be read falls back to the
\* uncompressed one
LoadStationsFallback ==
    IF stations_gz.exists /\ stations_gz.ok THEN JsonLoads(stations_gz.members)
    ELSE IF stations_json.exists
    THEN (IF stations_json.ok THEN JsonLoads(stations_json.members) ELSE <<>>)
    ELSE <<>>

\* variant: the uncompressed stations file is preferred when it exists
LoadStationsLegacyFirst ==
    IF stations_json.exists
    THEN (IF stations_json.ok THEN JsonLoads(stations_json.members) ELSE <<>>)
    ELSE IF stations_gz.exists
    THEN (IF stations_gz.ok THEN JsonLoads(stations_gz.members) ELSE <<>>)
    ELSE <<>>

\* stations: compressed file first, else the uncompressed one; a file that
\* cannot be read leaves self.stations as it was ({} in __init__)
LoadStations ==
    IF stations_gz.exists
    THEN (IF stations_gz.ok THEN JsonLoads(stations_gz.members) ELSE <<>>)
    ELSE IF stations_json.exists
    THEN (IF stations_json.ok THEN JsonLoads(stations_json.members) ELSE <<>>)
    ELSE <<>>

\* variant: the uncompressed trains file is preferred when it exists
LoadTrainsLegacyFirst ==
    IF trains_json.exists
    THEN (IF trains_json.ok THEN StrKeys(JsonLoads(trains_json.members)) ELSE <<>>)
    ELSE IF trains_gz.exists
    THEN (IF trains_gz.ok THEN StrKeys(JsonLoads(trains_gz.members)) ELSE <<>>)
    ELSE <<>>

\* trains: same preference; keys are passed through str()
LoadTrains ==
    IF trains_gz.exists
    THEN (IF trains_gz.ok THEN StrKeys(JsonLoads(trains_gz.members)) ELSE <<>>)
    ELSE IF trains_json.exists
    THEN (IF trains_json.ok THEN StrKeys(JsonLoads(trains_json.members)) ELSE <<>>)
    ELSE <<>>

\* history: identifiers seen for the first time get their value recorded
FirstValues(ev, tr) ==
    [t \in TrainIds |->
        IF ev[t] = NoTrain /\ HasKey(tr, StrKey(t))
        THEN DictGet(tr, StrKey(t)) ELSE ev[t]]

\* PolishRailwayScraper(): a new process starts; run_scraper receives its flag
Construct ==
    /\ pc \in {"off", "done"}
    /\ run < MaxRuns
    /\ run' = run + 1
    /\ pc' = "constructed"
    /\ stations_only' \in BOOLEAN
    /\ stations' = LoadStations
    /\ trains' = LoadTrains
    /\ processed_stations' = {}
    /\ station_items' = <<>>
    /\ idx' = 1
    /\ departures_left' = 0
    /\ train_id' = 0
    /\ new_trains_count' = 0
    /\ loops' = 0
    /\ n_get_departures' = 0
    /\ n_get_train' = 0
    /\ n_sleep_short' = 0
    /\ n_sleep_long' = 0
    /\ loaded_ids' = {Ident(k) : k \in DictKeys(LoadTrains)}
    /\ seen_ids' = {}
    /\ event' = "construct"
    /\ stations_failed' = FALSE
    /\ ever' = FirstValues(ever, LoadTrains)
    /\ last_io' = "none"
    /\ scraping_summary' = NoSummary
    /\ UNCHANGED <<disk, saved>>

(* ---------------------------- fetch_stations --------------------------- *)
RECURSIVE Ascending(_)
\* the members of a set of numbers as an ascending sequence
Ascending(S) ==
    IF S = {} THEN <<>>
    ELSE LET m == CHOOSE x \in S : \A y \in S : x <= y
         IN <<m>> \o Ascending(S \ {m})

\* what api.get_stations() may return: some of the stations, under one name
StationLists ==
    { [i \in 1..Len(Ascending(S)) |-> Station(Ascending(S)[i], nm)] :
        S \in SUBSET StationIds, nm \in Names }

RECURSIVE StoreStations(_, _)
\* the for loop of fetch_stations: self.stations[station.get('id')] = {...}
StoreStations(d, data) ==
    IF data = <<>> THEN d
    ELSE StoreStations(DictSet(d, IntKey(data[1].id), data[1]), Tail(data))

\* fetch_stations: the list is merged into self.stations; when get_stations
\* raises, the exception is caught and self.stations is left as it was
FetchStations ==
    /\ pc = "constructed"
    /\ pc' = "fetched"
    /\ \/ /\ \E data \in StationLists : stations' = StoreStations(stations, data)
          /\ stations_failed' = FALSE
          /\ event' = "stations"
       \/ /\ stations' = stations
          /\ stations_failed' = TRUE
          /\ event' = "stations_failed"
    /\ UNCHANGED <<run, stations_only, scraping_summary, disk, trains, processed_stations,
                   station_items, idx, departures_left, train_id,
                   new_trains_count, loops,
                   calls, loaded_ids, seen_ids, saved, ever, last_io>>

(* --------------------------- scrape_all_trains ------------------------- *)
\* variant: the crawl runs whatever the flag says
CrawlAlways(flag) == TRUE

\* "if not stations_only" in run_scraper
CrawlRequested(flag) == ~flag

\* first statement of scrape_all_trains: the worklist is a snapshot
ScrapeAllTrains ==
    /\ pc = "fetched"
    /\ CrawlRequested(stations_only)
    /\ pc' = "loop"
    /\ station_items' = stations
    /\ idx' = 1
    /\ loops' = loops + 1
    /\ event' = "scrape"
    /\ UNCHANGED <<run, stations_only, scraping_summary, disk, stations, trains,
                   processed_stations, departures_left, train_id,
                   new_trains_count,
                   calls, loaded_ids, seen_ids, saved, stations_failed, ever,
                   last_io>>

\* scrape_all_trains called once more on the same scraper object
RescrapeAllTrains ==
    /\ pc = "loop"
    /\ idx > Len(station_items)
    /\ loops < MaxLoops
    /\ station_items' = stations
    /\ idx' = 1
    /\ loops' = loops + 1
    /\ event' = "rescrape"
    /\ UNCHANGED <<pc, run, stations_only, scraping_summary, disk, stations, trains,
                   processed_stations, departures_left, train_id,
                   new_trains_count,
                   calls, loaded_ids, seen_ids, saved, stations_failed, ever,
                   last_io>>

AtStation == pc = "loop" /\ idx <= Len(station_items)
station_id == station_items[idx][1]

\* variant: membership is tested with str(station_id)
AlreadyProcessedStr(sid, ps) == PyStr(sid) \in ps

\* "if station_id in self.processed_stations"
AlreadyProcessed(sid, ps) == sid \in ps

\* the skip branch of the loop: continue
SkipStation ==
    /\ AtStation
    /\ AlreadyProcessed(station_id, processed_stations)
    /\ idx' = idx + 1
    /\ event' = "skip"
    /\ UNCHANGED <<pc, run, stations_only, scraping_summary, disk, stations, trains,
                   processed_stations, station_items, departures_left, train_id,
                   new_trains_count, loops, calls, loaded_ids, seen_ids,
                   saved, stations_failed, ever, last_io>>

(* ----------------------- fetch_trains_for_station ---------------------- *)
\* one departure: it names a train, names none (no 'stations' entry or a
\* false train_id), or is not shaped as the code expects
TrainDeparture(t) == [kind |-> "train", train_id |-> t]
NoTrainDeparture == [kind |-> "none", train_id |-> 0]
BadDeparture == [kind |-> "bad", train_id |-> 0]
Departures == {TrainDeparture(t) : t \in TrainIds} \cup {NoTrainDeparture, BadDeparture}

\* variant: the outer except lets the exception out and the process stops
AfterFetchRaisedAbort == "crashed"

\* where the outer except of fetch_trains_for_station leaves the process: it
\* prints and falls through to "return trains", back in the crawl loop
AfterFetchRaised == "mark"

\* entry of fetch_trains_for_station up to the start of the departures loop:
\* api.get_departures(int(station_id), tomorrow) raises (caught by the outer
\* except), returns nothing, or returns a list of departures. Of the list the
\* state keeps the length; each departure is drawn when the loop reaches it
\* (the list does not depend on anything the program does in between).
GetDepartures ==
    /\ AtStation
    /\ ~AlreadyProcessed(station_id, processed_stations)
    /\ n_get_departures' = n_get_departures + 1
    /\ new_trains_count' = 0
    /\ train_id' = 0
    /\ last_io' = "get_departures"
    /\ \/ /\ pc' = AfterFetchRaised
          /\ departures_left' = 0
          /\ event' = "departures_failed"
       \/ \E len \in 0..MaxDepartures :
             /\ departures_left' = len
             /\ pc' = IF len = 0 THEN "mark" ELSE "trains"
             /\ event' = IF len = 0 THEN "no_departures" ELSE "departures"
    /\ UNCHANGED <<run, stations_only, scraping_summary, disk, stations, trains,
                   processed_stations, station_items, idx, loops,
                   n_get_train, n_sleep_short, n_sleep_long, loaded_ids,
                   seen_ids, saved, stations_failed, ever>>

\* variant: the cache is looked up with the train_id itself, not its string
InCacheIntKey(tr, tid) == HasKey(tr, IntKey(tid))

\* variant: a record without stops does not count as cached
InCacheFullOnly(tr, tid) ==
    /\ HasKey(tr, PyStr(IntKey(tid)))
    /\ DictGet(tr, PyStr(IntKey(tid))).stops # <<>>

\* variant: the cache is never consulted
InCacheNever(tr, tid) == FALSE

\* "if train_id_str in self.trains"
InCache(tr, tid) == HasKey(tr, PyStr(IntKey(tid)))

\* variant: the record is stored under the train_id itself, not its string
StoreFullIntKey(tr, tid, stops) == DictSet(tr, IntKey(tid), FullTrain(tid, stops))

\* self.trains[train_id_str] = {... complete record ...}
StoreFull(tr, tid, stops) == DictSet(tr, PyStr(IntKey(tid)), FullTrain(tid, stops))

\* variant: a failed get_train stores nothing
StoreStubDropped(tr, tid, sid) == tr

\* the except branch: self.trains[train_id_str] = {... 'stops': [] ...}
StoreStub(tr, tid, sid) ==
    DictSet(tr, PyStr(IntKey(tid)), StubTrain(tid, PyInt(sid)))

\* one pass of the body of "for departure in pbar"
ResolveDeparture ==
    /\ pc = "trains"
    /\ departures_left > 0
    /\ \E departure \in Departures :
       /\ train_id' = departure.train_id
       /\ seen_ids' = IF departure.kind = "train"
                      THEN seen_ids \cup {departure.train_id} ELSE seen_ids
       /\ \/ \* departure.get(...) raises: the outer except ends the station
             /\ departure.kind = "bad"
             /\ pc' = AfterFetchRaised
             /\ departures_left' = 0
             /\ event' = "departure_raised"
             /\ UNCHANGED <<trains, new_trains_count, n_get_train, n_sleep_short,
                            last_io>>
          \/ \* no train_id: nothing is done for this departure
             /\ departure.kind = "none"
             /\ departures_left' = departures_left - 1
             /\ event' = "no_train"
             /\ UNCHANGED <<pc, trains, new_trains_count, n_get_train, n_sleep_short,
                            last_io>>
          \/ \* cache hit
             /\ departure.kind = "train"
             /\ InCache(trains, departure.train_id)
             /\ departures_left' = departures_left - 1
             /\ event' = "cached"
             /\ UNCHANGED <<pc, trains, new_trains_count, n_get_train, n_sleep_short,
                            last_io>>
          \/ \* api.get_train succeeds: full record, then sleep(0.2)
             /\ departure.kind = "train"
             /\ ~InCache(trains, departure.train_id)
             /\ trains' = StoreFull(trains, departure.train_id,
                                   Route(departure.train_id))
             /\ event' = "fetched"
             /\ new_trains_count' = new_trains_count + 1
             /\ n_get_train' = n_get_train + 1
             /\ n_sleep_short' = n_sleep_short + 1
             /\ last_io' = "sleep"
             /\ departures_left' = departures_left - 1
             /\ pc' = pc
          \/ \* api.get_train (or reading its result) raises: stub, no sleep
             /\ departure.kind = "train"
             /\ ~InCache(trains, departure.train_id)
             /\ trains' = StoreStub(trains, departure.train_id, PyStr(station_id))
             /\ event' = "stub"
             /\ new_trains_count' = new_trains_count + 1
             /\ n_get_train' = n_get_train + 1
             /\ n_sleep_short' = n_sleep_short
             /\ last_io' = "get_train"
             /\ departures_left' = departures_left - 1
             /\ pc' = pc
    /\ ever' = FirstValues(ever, trains')
    /\ UNCHANGED <<run, stations_only, scraping_summary, disk, stations, processed_stations,
                   station_items, idx, loops, n_get_departures, n_sleep_long,
                   loaded_ids, saved, stations_failed>>

\* variant: the station never ends with a sleep
LongSleepNever(n) == FALSE

\* "if new_trains_count > 0" before asyncio.sleep(0.5)
LongSleepDue(n) == n > 0

\* after the departures loop: sleep(0.5) only if new_trains_count > 0; return
EndFetch ==
    /\ pc = "trains"
    /\ departures_left = 0
    /\ pc' = "mark"
    /\ n_sleep_long' = IF LongSleepDue(new_trains_count)
                       THEN n_sleep_long + 1 ELSE n_sleep_long
    /\ last_io' = IF LongSleepDue(new_trains_count) THEN "sleep" ELSE last_io
    /\ event' = "end_fetch"
    /\ UNCHANGED <<run, stations_only, scraping_summary, disk, memory, n_get_departures,
                   n_get_train, n_sleep_short, loaded_ids, seen_ids, saved,
                   stations_failed, ever>>

(* ------------------------------- saving -------------------------------- *)
\* save_compressed_data: both collections are written, compressed
SaveCompressedData ==
    /\ stations_gz' = JsonFile(JsonDumps(stations))
    /\ trains_gz' = JsonFile(JsonDumps(trains))
    /\ saved' = [valid |-> TRUE, stations |-> stations, trains |-> trains]
    /\ UNCHANGED <<stations_json, trains_json>>

\* save_partial_data: the checkpoint writes the two collections only
SavePartialData == SaveCompressedData

\* the outer except of fetch_trains_for_station has just been taken
FetchRaised == event \in {"departures_failed", "departure_raised"}

\* variant: a station whose fetch raised is not recorded as processed
AddProcessedUnlessRaised(ps, sid) == IF FetchRaised THEN ps ELSE ps \cup {sid}

\* variant: the set is replaced by the station instead of growing by it
AddProcessedReplace(ps, sid) == {sid}

\* "self.processed_stations.add(station_id)"
AddProcessed(ps, sid) == ps \cup {sid}

\* variant: the period is tested on the count before the station was added
CheckpointDueBeforeAdd(ps) == (Cardinality(ps) - 1) % CheckpointEvery = 0

\* "if len(self.processed_stations) % 500 == 0" (period scaled, see CheckpointEvery)
CheckpointDue(ps) == Cardinality(ps) % CheckpointEvery = 0

\* back in scrape_all_trains: processed_stations.add, periodic save_partial_data
MarkProcessed ==
    /\ pc = "mark"
    /\ processed_stations' = AddProcessed(processed_stations, station_id)
    /\ idx' = idx + 1
    /\ pc' = "loop"
    /\ IF CheckpointDue(processed_stations')
       THEN SavePartialData
       ELSE UNCHANGED <<disk, saved>>
    /\ event' = IF FetchRaised THEN "marked_after_error" ELSE "marked"
    /\ UNCHANGED <<run, stations_only, scraping_summary, stations, trains, station_items,
                   departures_left, train_id, new_trains_count, loops, calls,
                   loaded_ids, seen_ids, stations_failed, ever, last_io>>

\* run_scraper after the crawl (or at once with --stations-only):
\* save_final_data writes the two collections, then the summary
FinalSave ==
    /\ \/ pc = "fetched" /\ ~CrawlRequested(stations_only)
       \/ pc = "loop" /\ idx > Len(station_items)
    /\ pc' = "done"
    /\ SaveCompressedData
    /\ scraping_summary' = Summary(stations, trains, processed_stations, run)
    /\ event' = "final_save"
    /\ UNCHANGED <<run, stations_only, memory, calls, loaded_ids, seen_ids,
                   stations_failed, ever, last_io>>

\* external termination of the process: memory is lost, the disk stays
Kill ==
    /\ pc \notin {"off", "done"}
    /\ pc' = "off"
    /\ stations' = <<>>
    /\ trains' = <<>>
    /\ processed_stations' = {}
    /\ station_items' = <<>>
    /\ idx' = 1
    /\ departures_left' = 0
    /\ train_id' = 0
    /\ new_trains_count' = 0
    /\ loops' = 0
    /\ n_get_departures' = 0
    /\ n_get_train' = 0
    /\ n_sleep_short' = 0
    /\ n_sleep_long' = 0
    /\ loaded_ids' = {}
    /\ seen_ids' = {}
    /\ event' = "kill"
    /\ stations_failed' = FALSE
    /\ last_io' = "none"
    /\ scraping_summary' = NoSummary
    /\ UNCHANGED <<run, stations_only, disk, saved, ever>>

\* One process is one run_scraper: scrape_all_trains runs once, on a worklist
\* without repeated keys and with processed_stations empty, so the skip branch
\* of its loop is never taken there; it is a step of NextLib only.
Next ==
    \/ Construct
    \/ FetchStations
    \/ ScrapeAllTrains
    \/ GetDepartures
    \/ ResolveDeparture
    \/ EndFetch
    \/ MarkProcessed
    \/ FinalSave
    \/ Kill

Spec == Init /\ [][Next]_vars

\* the scraper used as a library: scrape_all_trains may be called again
NextLib == Next \/ RescrapeAllTrains \/ SkipStation

SpecLib == Init /\ [][NextLib]_vars

\* the statements of a running process
RunStep ==
    \/ FetchStations
    \/ ScrapeAllTrains
    \/ GetDepartures
    \/ ResolveDeparture
    \/ EndFetch
    \/ MarkProcessed
    \/ FinalSave

\* the first process is started
Start == pc = "off" /\ Construct

\* one process that nobody kills, on any of the initial disks: every await of
\* the coroutine returns or raises, so a process that can take its next
\* statement does take it
NextRun == Start \/ RunStep

SpecRun == Init /\ [][NextRun]_vars /\ WF_vars(RunStep)

(* ============================== claims ================================= *)
\* every record of tr is in tr2 with the same value
KeepsRecords(tr, tr2) ==
    \A k \in DictKeys(tr) : HasKey(tr2, k) /\ DictGet(tr2, k) = DictGet(tr, k)

\* a process that ran its crawl to the end, started on a disk that earlier
\* processes left, and met only trains its loaded cache already held
WarmCrawlDone ==
    /\ pc = "done"
    /\ run >= 2
    /\ ~stations_only
    /\ seen_ids \subseteq loaded_ids

\* C1 as stated: a crawl over a cache that holds every record the worklist
\* produces issues no network call at all, neither get_departures nor get_train
\* (taken where the worklist did produce trains, all of them cached).
C1_NoNetworkCalls ==
    (WarmCrawlDone /\ seen_ids # {}) => (n_get_departures = 0 /\ n_get_train = 0)

\* C1 amended: such a crawl issues no get_train call and sleeps never, but it
\* still issues one get_departures call for every entry of the worklist.
C1_NoDetailCalls ==
    WarmCrawlDone =>
        /\ n_get_train = 0
        /\ n_sleep_short = 0
        /\ n_sleep_long = 0
        /\ n_get_departures = Len(station_items)

C1_Witness ==
    /\ WarmCrawlDone
    /\ seen_ids # {}
    /\ n_get_departures > 0
    /\ n_get_train = 0

\* the collection a fresh process would load from a file
Reloaded(file) == IF file.exists /\ file.ok THEN JsonLoads(file.members) ELSE <<>>

\* C2: the step that brings the number of processed entities to a multiple of
\* the checkpoint period leaves both files holding the whole in-memory
\* collections, before the next entity is started: a process killed right
\* after it finds every record fetched so far on disk.
C2_CheckpointCadence ==
    [][ (pc = "mark" /\ pc' = "loop"
            /\ Cardinality(processed_stations') % CheckpointEvery = 0)
        => /\ trains_gz'.exists /\ trains_gz'.ok
           /\ KeepsRecords(trains', StrKeys(Reloaded(trains_gz')))
           /\ KeepsRecords(StrKeys(Reloaded(trains_gz')), trains')
           /\ stations_gz'.exists /\ stations_gz'.ok ]_vars

C2_Witness ==
    /\ event \in {"marked", "marked_after_error"}
    /\ Cardinality(processed_stations) = CheckpointEvery
    /\ n_get_train > 0
    /\ trains # <<>>
    /\ \E i \in 1..Len(trains) : trains[i][2].stops = <<>>
    /\ KeepsRecords(trains, Reloaded(trains_gz))

\* C3: when get_train fails for a train that is not cached, the cache then
\* holds the train's identifier with an empty stop sequence, and the loop
\* over the station's departures goes on with the next departure.
C3_DegradedRecord ==
    [][ (event' = "stub")
        => LET tid == train_id'
           IN /\ ~HasKey(trains, StrKey(tid))
              /\ HasKey(trains', StrKey(tid))
              /\ DictGet(trains', StrKey(tid)).stops = <<>>
              /\ DictGet(trains', StrKey(tid)).train_id = tid
              /\ pc' = "trains"
              /\ departures_left' = departures_left - 1 ]_vars

C3_Witness ==
    /\ event = "stub"
    /\ pc = "trains"
    /\ departures_left > 0
    /\ HasKey(trains, StrKey(train_id))
    /\ DictGet(trains, StrKey(train_id)).stops = <<>>
    /\ \E i \in 1..Len(trains) : trains[i][2].stops = <<>>

\* the identifiers a collection holds, and the value of an identifier: the
\* one of its last item (key normalisation keeps the later of two items
\* whose keys denote the same identifier)
Idents(d) == {Ident(k) : k \in DictKeys(d)}
LastValue(d, n) ==
    d[CHOOSE i \in 1..Len(d) :
        /\ Ident(d[i][1]) = n
        /\ \A j \in 1..Len(d) : Ident(d[j][1]) = n => j <= i][2]
SameNormalized(loaded, mem) ==
    /\ Idents(loaded) = Idents(mem)
    /\ \A k \in DictKeys(loaded) :
          /\ k.t = "str"
          /\ DictGet(loaded, k) = LastValue(mem, Ident(k))

\* C4: what a fresh process loads after a save equals, key-normalized, the
\* collections that were saved: same identifiers, same value for each.
C4_RoundTrip ==
    (pc = "constructed" /\ saved.valid)
        => /\ SameNormalized(stations, saved.stations)
           /\ SameNormalized(trains, saved.trains)

C4_Witness ==
    /\ pc = "constructed"
    /\ saved.valid
    /\ saved.trains # <<>>
    /\ \E i, j \in 1..Len(saved.stations) :
          /\ saved.stations[i][1].t = "str"
          /\ saved.stations[j][1].t = "int"
          /\ Ident(saved.stations[i][1]) = Ident(saved.stations[j][1])
          /\ saved.stations[i][2] # saved.stations[j][2]

NoDuplicateIdent(d) ==
    \A i, j \in 1..Len(d) : Ident(d[i][1]) = Ident(d[j][1]) => i = j

\* C5: right after load, no two keys of the station collection and no two
\* keys of the train collection denote the same identifier, whichever file
\* the data came from.
C5_DedupOnLoad ==
    pc = "constructed" => NoDuplicateIdent(stations) /\ NoDuplicateIdent(trains)

C5_Witness ==
    /\ pc = "constructed"
    /\ stations_gz.exists /\ stations_gz.ok
    /\ Len(stations_gz.members) > Len(stations)
    /\ stations # <<>>
    /\ trains # <<>>

\* C6 as stated: when get_stations raises, the process behaves as if there
\* were no stations: no station is processed and neither get_departures nor
\* get_train is called, also when stations had been loaded from disk.
C6_ListFailureNoOp ==
    stations_failed =>
        /\ n_get_departures = 0
        /\ n_get_train = 0
        /\ processed_stations = {}

\* C7: when get_departures raises, or a departure makes the loop raise, the
\* exception ends the station only: the records stored so far stay, the
\* station is added to processed_stations and the loop moves to the next one.
C7_PerEntityFailure ==
    [][ /\ (event' \in {"departures_failed", "departure_raised"})
            => (pc' = "mark" /\ idx' = idx /\ KeepsRecords(trains, trains'))
        /\ (FetchRaised /\ pc' # "off")
            => /\ pc' = "loop"
               /\ station_id \in processed_stations'
               /\ idx' = idx + 1
               /\ KeepsRecords(trains, trains') ]_vars

C7_Witness ==
    /\ event = "marked_after_error"
    /\ new_trains_count > 0
    /\ trains # <<>>
    /\ AtStation
    /\ station_items[idx - 1][1] \in processed_stations

\* C8 as stated: (1) every get_train call, successful or failed, is followed
\* by the short sleep; (2) a station during which get_train was called ends
\* with the long sleep; (3) a station without any get_train call sleeps never.
C8_DelayPolicy ==
    [][ /\ (event' \in {"fetched", "stub"}) => n_sleep_short' = n_sleep_short + 1
        /\ (pc = "trains" /\ pc' = "mark" /\ new_trains_count > 0)
            => n_sleep_long' = n_sleep_long + 1
        /\ (pc' = "mark" /\ new_trains_count' = 0)
            => n_sleep_long' = n_sleep_long /\ n_sleep_short' = n_sleep_short ]_vars

\* C9 as stated: an identifier that was once a key of a record cache keeps
\* its first value in every later state of this process and of later ones.
C9_NeverChanged ==
    pc # "off" =>
        \A t \in TrainIds :
            ever[t] # NoTrain =>
                /\ HasKey(trains, StrKey(t))
                /\ DictGet(trains, StrKey(t)) = ever[t]

\* C9 amended: no step of a process changes or removes a record of its
\* cache, and every record written by the last save (checkpoint or final) is
\* in the cache of the running process with the value that was saved; what a
\* killed process stored after its last save is not covered.
C9_WriteOnceSaved ==
    [][ /\ (pc' \notin {"off", "constructed"}) => KeepsRecords(trains, trains')
        /\ (pc' # "off" /\ saved'.valid) => KeepsRecords(saved'.trains, trains') ]_vars

C9_Witness ==
    /\ run >= 2
    /\ event = "cached"
    /\ \E t \in TrainIds :
          /\ train_id = t
          /\ t \in loaded_ids
          /\ HasKey(saved.trains, StrKey(t))
          /\ DictGet(trains, StrKey(t)).stops = <<>>
          /\ DictGet(trains, StrKey(t)).total_stops = -1

\* C10: when the loop meets a station that is already in processed_stations
\* it only moves on: no call, no sleep, no change of the collections, of
\* processed_stations or of the files.
C10_SkipProcessed ==
    [][ (AtStation /\ station_id \in processed_stations /\ pc' # "off")
        => /\ pc' = "loop"
           /\ idx' = idx + 1
           /\ UNCHANGED <<stations, trains, processed_stations, station_items,
                          disk, calls, saved>> ]_vars

C10_Witness ==
    /\ event = "skip"
    /\ loops = 2
    /\ idx > 1
    /\ station_items[idx - 1][1] \in processed_stations
    /\ trains # <<>>

C12_LoadPreference ==
    pc = "constructed" =>
        /\ stations_gz.exists => stations = Reloaded(stations_gz)
        /\ trains_gz.exists => trains = StrKeys(Reloaded(trains_gz))
        /\ (~stations_gz.exists /\ stations_json.exists)
              => stations = Reloaded(stations_json)
        /\ (~trains_gz.exists /\ trains_json.exists)
              => trains = StrKeys(Reloaded(trains_json))

C12_Witness ==
    /\ pc = "constructed"
    /\ stations_gz.exists /\ stations_gz.ok /\ stations_json.exists
    /\ trains_gz.exists /\ trains_gz.ok /\ trains_json.exists
    /\ Reloaded(stations_json) # Reloaded(stations_gz)
    /\ Reloaded(trains_json) # Reloaded(trains_gz)
    /\ stations = Reloaded(stations_gz)
    /\ trains # <<>>

\* where a worklist key k stands: 0 pending, 1 in progress (its
\* fetch_trains_for_station is running or has just returned), 2 done (in
\* processed_stations)
StationRank(k, ps, p, items, i) ==
    IF k \in ps THEN 2
    ELSE IF p \in {"trains", "mark"} /\ items[i][1] = k THEN 1
    ELSE 0

\* C13: during a process every worklist key goes from pending to in progress
\* to done, one stage per step and never back, with at most one key in
\* progress; processed_stations is empty when a process starts; when the
\* loop ends every worklist key is in processed_stations and each has had
\* its get_departures call in this process, whatever earlier processes did.
C13_EntityStateMachine ==
    [][ /\ (pc' = "constructed") => processed_stations' = {}
        /\ (pc' \notin {"off", "constructed"})
            => \A k \in DictKeys(station_items') :
                  LET was == StationRank(k, processed_stations, pc, station_items, idx)
                      now == StationRank(k, processed_stations', pc', station_items', idx')
                  IN now \in {was, was + 1}
        /\ Cardinality({k \in DictKeys(station_items') :
               StationRank(k, processed_stations', pc', station_items', idx') = 1}) <= 1
        /\ (pc' = "loop" /\ idx' > Len(station_items'))
            => /\ DictKeys(station_items') \subseteq processed_stations'
               /\ n_get_departures' = Len(station_items') ]_vars

C13_Witness ==
    /\ run >= 2
    /\ ~saved.valid
    /\ pc = "loop"
    /\ idx > Len(station_items)
    /\ station_items # <<>>
    /\ DictKeys(station_items) \subseteq processed_stations
    /\ n_get_departures = Len(station_items)

\* number of network operations (get_departures, get_train) of this process
NetworkOps == n_get_departures + n_get_train

C15_OneEntryPerStation ==
    (pc \in {"fetched", "loop", "trains", "mark", "done"} /\ ~stations_failed)
        => /\ NoDuplicateIdent(stations)
           /\ NoDuplicateIdent(station_items)
           /\ scraping_summary.exists
                => scraping_summary.total_stations = Cardinality(Idents(stations))

\* C16: when a departure names a train that is not cached and get_train
\* succeeds, the cache gains the key str(train_id) with the stops get_train
\* returned, in their order, and total_stops their number; the record stays
\* as it is for the rest of the process, and the station whose fetch has
\* returned enters processed_stations.
C16_SuccessfulResolution ==
    [][ /\ (event' = "fetched")
            => LET tid == train_id'
                   key == StrKey(tid)
               IN /\ ~HasKey(trains, key)
                  /\ Len(trains') = Len(trains) + 1
                  /\ HasKey(trains', key)
                  /\ DictGet(trains', key).train_id = tid
                  /\ DictGet(trains', key).stops = Route(tid)
                  /\ DictGet(trains', key).total_stops = Len(Route(tid))
        /\ (pc' \notin {"off", "constructed"})
            => \A k \in DictKeys(trains) :
                  DictGet(trains, k).stops # <<>>
                      => HasKey(trains', k) /\ DictGet(trains', k) = DictGet(trains, k)
        /\ (pc = "mark" /\ pc' = "loop")
            => station_items[idx][1] \in processed_stations' ]_vars

C16_Witness ==
    /\ pc = "loop"
    /\ idx > Len(station_items)
    /\ n_get_train > 0
    /\ processed_stations = DictKeys(station_items)
    /\ \E t \in TrainIds \ loaded_ids :
          /\ HasKey(trains, StrKey(t))
          /\ DictGet(trains, StrKey(t)).stops = Route(t)
          /\ DictGet(trains, StrKey(t)).total_stops = 2

\* C17: the summary written by the final save gives the sizes of the state
\* it is written from: the number of entries of self.stations, the number of
\* records of self.trains, the number of those that have at least one stop
\* (a record without stops is not counted), the number of stops of all
\* records together, and the size of processed_stations; the records with
\* stops are never more than the records.
C17_SummaryReport ==
    [][ (event' = "final_save")
        => LET report == scraping_summary'
               stubs == {i \in 1..Len(trains') : trains'[i][2].stops = <<>>}
               stops == UNION {{<<i, j>> : j \in 1..Len(trains'[i][2].stops)} :
                                  i \in 1..Len(trains')}
           IN /\ report.exists
              /\ report.total_stations = Len(stations')
              /\ report.total_trains = Len(trains')
              /\ report.trains_with_complete_routes = Len(trains') - Cardinality(stubs)
              /\ report.total_stops_across_all_trains = Cardinality(stops)
              /\ report.stations_processed = Cardinality(processed_stations')
              /\ report.trains_with_complete_routes <= report.total_trains ]_vars

C17_Witness ==
    /\ pc = "done"
    /\ event = "final_save"
    /\ scraping_summary.exists
    /\ scraping_summary.total_trains > 0
    /\ scraping_summary.trains_with_complete_routes = 0
    /\ scraping_summary.stations_processed = 2
    /\ scraping_summary.total_stations = 2

\* C18: a process started with --stations-only calls neither get_departures
\* nor get_train, adds nothing to processed_stations and never changes
\* self.trains; after its final save, trains.json.gz holds exactly the
\* records the process loaded when it started.
C18_StationsOnly ==
    [][ (stations_only' /\ pc' \notin {"off", "constructed"})
        => /\ n_get_departures' = 0
           /\ n_get_train' = 0
           /\ processed_stations' = {}
           /\ trains' = trains
           /\ (event' = "final_save")
                => /\ trains_gz'.exists /\ trains_gz'.ok
                   /\ StrKeys(Reloaded(trains_gz')) = LoadTrains ]_vars

C18_Witness ==
    /\ pc = "done"
    /\ stations_only
    /\ event = "final_save"
    /\ trains # <<>>
    /\ stations # <<>>
    /\ n_get_departures = 0
    /\ StrKeys(Reloaded(trains_gz)) = trains

\* C19: a step calls get_train at most once, only for a train_id whose
\* string is not a key of self.trains (so not for a loaded one), and it leaves
\* the key in the cache; hence the calls of a process are as many as the
\* identifiers its cache has gained since load. A record without stops that
\* was saved is loaded by the next process, which therefore does not call
\* get_train for it. A departure without train_id causes no call and no record.
C19_CallAccounting ==
    [][ /\ (n_get_train' > n_get_train)
            => /\ n_get_train' = n_get_train + 1
               /\ ~HasKey(trains, StrKey(train_id'))
               /\ train_id' \notin loaded_ids
               /\ HasKey(trains', StrKey(train_id'))
        /\ (pc' # "off")
            => n_get_train' = Cardinality(Idents(trains') \ loaded_ids')
        /\ (pc' = "constructed" /\ saved.valid)
            => \A k \in DictKeys(saved.trains) :
                  DictGet(saved.trains, k).stops = <<>> => Ident(k) \in loaded_ids'
        /\ (event' = "no_train")
            => n_get_train' = n_get_train /\ trains' = trains ]_vars

C19_Witness ==
    /\ pc = "trains"
    /\ event = "cached"
    /\ n_get_departures = 2
    /\ n_get_train = 1
    /\ train_id \notin loaded_ids
    /\ HasKey(trains, StrKey(train_id))
    /\ DictGet(trains, StrKey(train_id)).stops = <<>>

\* the trains file a starting process would read, and the records it holds
\* when it can be read
RecordFile(gz, json) == IF gz.exists THEN gz ELSE json
Readable(file) == file.exists /\ file.ok
RecordsOf(file) == StrKeys(Reloaded(file))

\* C20: while a process runs, every record the trains file holds is in
\* self.trains with the same value (looked at after every step that starts a
\* process, changes self.trains or changes the file), and no step leaves the
\* file without a record it held or with another value for it: a save writes
\* a superset, a kill leaves the file as the last save wrote it.
C20_PersistedRecordsKept ==
    [][ LET before == RecordFile(trains_gz, trains_json)
            after == RecordFile(trains_gz', trains_json')
        IN /\ (pc' # "off" /\ Readable(after)
                 /\ (pc = "off" \/ trains' # trains \/ after # before))
                => KeepsRecords(RecordsOf(after), trains')
           /\ (Readable(before) /\ after # before)
                => Readable(after) /\ KeepsRecords(RecordsOf(before), RecordsOf(after))
           /\ (pc' = "off") => UNCHANGED disk ]_vars

C20_Witness ==
    /\ pc = "done"
    /\ ~stations_only
    /\ run >= 2
    /\ loaded_ids # {}
    /\ seen_ids \cap loaded_ids # {}
    /\ n_get_departures > 0
    /\ Readable(trains_gz)
    /\ RecordsOf(trains_gz) # <<>>
    /\ KeepsRecords(RecordsOf(trains_gz), trains)

\* a file that is there but cannot be read or parsed
Unreadable(file) == file.exists /\ ~file.ok

====
